---- MODULE Spec2Model ----
(***************************************************************************)
(* A model of src/bgw.py: additive secret sharing over the integers mod m, *)
(* the Beaver-triple authority (TTP), the per-party state of a Client and  *)
(* the orchestrator BGW.run_circuit.                                       *)
(*                                                                         *)
(* Python lists are modelled as sequences (list index k is sequence index  *)
(* k+1), dicts as functions over their key set, and every call of          *)
(* rng.randrange(mod) as a choice from Draws(mod).                         *)
(***************************************************************************)
EXTENDS Integers, Sequences, FiniteSets, TLC

VARIABLES
    circuit,        \* Client.circuit: the list of wires, shared by all clients
    client_count,   \* TTP.client_count = len(clients)
    mod,            \* Client.mod = TTP.mod
    inputs,         \* inputs[c]: Client.inputs of client c (wire id -> private value)
    input_shares,   \* input_shares[c]: Client.input_shares (wire id -> list of n shares)
    beaver_shares,  \* beaver_shares[c]: Client.beaver_shares (gate id -> <<x, y, z>> share)
    output,         \* output[c]: Client.output (wire id -> share)
    triples,        \* TTP.triples (gate id -> <<x_shares, y_shares, z_shares>>)
    pc,             \* position of BGW.run_circuit
    i,              \* loop index of the for loop run_circuit is in
    progress,       \* run_circuit's local list progress
    result,         \* run_circuit's local dict (named circuit in the source), returned at the end
    run_no,         \* which execution of run_circuit on the same inputs this is (1 or 2)
    first_result,   \* what the first execution returned
    clients,        \* the list clients given to run_circuit, as client ids; every
                    \* Client.clients that was set is this same list object
    peers,          \* peers[c]: Client.clients of client c ([] until set_clients)
    threads,        \* threads[p]: where client p's concurrent get_beaver_triple call is
    call,           \* the last call made by a driver, with its result
    returned        \* returned[<<g, p>>]: how often get_beaver_triple(g, p) was called by the
                    \* triple-authority driver, and the set of values it returned

vars == <<circuit, client_count, mod, inputs, input_shares, beaver_shares, output,
          triples, pc, i, progress, result, run_no, first_result, clients, peers,
          threads, call, returned>>

----------------------------------------------------------------------------
(* Bounds of the model. *)

\* moduli 2..MaxMod in the small configurations
MaxMod == 3
\* client counts 2..MaxClients in the small configurations
MaxClients == 2
\* randrange(m) yields a value below MaxDraw, or m-1
MaxDraw == 1
\* the share-arithmetic driver: share count n >= 2 and modulus m >= 2 with
\* n + m <= PureMaxSize, secrets and constants in -PureMaxVal..PureMaxVal
PureMaxSize == 5
PureMaxVal == 3
\* the triple-authority driver: gate ids 0..MaxGate, each client asking at most
\* MaxCalls times for each gate
MaxGate == 1
MaxCalls == 2
\* the runs of circuits without a Mult wire: client counts 2..LinearClients
LinearClients == 3

----------------------------------------------------------------------------
(* Python values. *)

\* the value None returned by run_circuit_until_mult
None == -2

EmptyDict == [k \in {} |-> 0]

\* dict.get(k, default)
Get(d, k, default) == IF k \in DOMAIN d THEN d[k] ELSE default

\* d[k] = v
Put(d, k, v) == [x \in DOMAIN d \cup {k} |-> IF x = k THEN v ELSE d[x]]

RECURSIVE SumSeq(_)
\* sum(shares)
SumSeq(s) == IF s = <<>> THEN 0 ELSE Head(s) + SumSeq(Tail(s))

\* the values one call rng.randrange(m) is taken to produce
Draws(m) == (0..((IF MaxDraw < m THEN MaxDraw ELSE m) - 1)) \cup {m - 1}

\* the results of k successive calls rng.randrange(m)
DrawSeqs(k, m) == [1..k -> Draws(m)]

----------------------------------------------------------------------------
(* The wires of a circuit. *)

InputWire(is_output, owner_id) ==
    [kind |-> "InputWire", is_output |-> is_output, owner_id |-> owner_id]

AddWire(is_output, wire_a_id, wire_b_id) ==
    [kind |-> "AddWire", is_output |-> is_output,
     wire_a_id |-> wire_a_id, wire_b_id |-> wire_b_id]

ConstMultWire(is_output, c, wire_a_id) ==
    [kind |-> "ConstMultWire", is_output |-> is_output, c |-> c, wire_a_id |-> wire_a_id]

MultWire(is_output, wire_a_id, wire_b_id) ==
    [kind |-> "MultWire", is_output |-> is_output,
     wire_a_id |-> wire_a_id, wire_b_id |-> wire_b_id]

\* circ[wire_id] of the source
WireAt(circ, wire_id) == circ[wire_id + 1]

\* range(len(circ))
WireIds(circ) == 0..(Len(circ) - 1)

IsMult(circ, wire_id) == WireAt(circ, wire_id).kind = "MultWire"

MultIds(circ) == {w \in WireIds(circ) : IsMult(circ, w)}

OutputIds(circ) == {w \in WireIds(circ) : WireAt(circ, w).is_output}

ClientIds == 0..(client_count - 1)

----------------------------------------------------------------------------
(* class BGW: the share arithmetic. *)

\* a create_shares whose final share adds the drawn shares instead of subtracting them
CreateShares_plus(secret, share_count, m, draws) ==
    LET shares == [k \in 1..(share_count - 1) |-> draws[k]]
    IN  Append(shares, (secret + SumSeq(shares)) % m)

\* a create_shares whose final share is the secret itself
CreateShares_leak(secret, share_count, m, draws) ==
    LET shares == [k \in 1..(share_count - 1) |-> draws[k]]
    IN  Append(shares, secret % m)

\* BGW.create_shares, with draws the share_count-1 values the rng produced
CreateShares(secret, share_count, m, draws) ==
    LET shares == [k \in 1..(share_count - 1) |-> draws[k]]
        final_share == (secret - SumSeq(shares)) % m
    IN  Append(shares, final_share)

\* BGW.recover_secret
RecoverSecret(shares, m) == SumSeq(shares) % m

\* an add that subtracts the second share
Add_minus(a_share, b_share, m) == (a_share - b_share) % m

\* BGW.add
Add(a_share, b_share, m) == (a_share + b_share) % m

\* a const_mult that drops the sign of the constant
ConstMult_unsigned(c, a_share, m) == ((IF c < 0 THEN -c ELSE c) * a_share) % m

\* BGW.const_mult
ConstMult(c, a_share, m) == (c * a_share) % m

\* a mult in which every party adds the cross term a_prime * b_prime
Mult_everyone(is_alice, x_share, y_share, z_share, a_prime, b_prime, m) ==
    (a_prime * y_share + b_prime * x_share + z_share + a_prime * b_prime) % m

\* a mult that returns res as it is
Mult_unreduced(is_alice, x_share, y_share, z_share, a_prime, b_prime, m) ==
    LET res == a_prime * y_share + b_prime * x_share + z_share
    IN  IF is_alice THEN res + a_prime * b_prime ELSE res

\* BGW.mult
Mult(is_alice, x_share, y_share, z_share, a_prime, b_prime, m) ==
    LET res == a_prime * y_share + b_prime * x_share + z_share
    IN  (IF is_alice THEN res + a_prime * b_prime ELSE res) % m

----------------------------------------------------------------------------
(* class TTP. *)

\* what _create_beaver_triple draws: x, y and the share_count-1 random shares of
\* each of x, y and z
TripleDraws(n, m) ==
    [x : Draws(m), y : Draws(m),
     xs : DrawSeqs(n - 1, m), ys : DrawSeqs(n - 1, m), zs : DrawSeqs(n - 1, m)]

\* TTP._create_beaver_triple: the entry stored in self.triples[gate_id]
CreateBeaverTriple(d, n, m) ==
    LET z == (d.x * d.y) % m
        x_shares == CreateShares(d.x, n, m, d.xs)
        y_shares == CreateShares(d.y, n, m, d.ys)
        z_shares == CreateShares(z, n, m, d.zs)
    IN  <<x_shares, y_shares, z_shares>>

\* a lookup that never finds the gate
InCache_never(tr, gate_id) == FALSE

\* the test `gate_id in self.triples` of get_beaver_triple
InCache(tr, gate_id) == gate_id \in DOMAIN tr

\* a slice that is client 0's for everyone
TripleSlice_first(entry, client_id) ==
    <<entry[1][1], entry[2][1], entry[3][1]>>

\* the client's slice of a cached entry
TripleSlice(entry, client_id) ==
    <<entry[1][client_id + 1], entry[2][client_id + 1], entry[3][client_id + 1]>>

\* a get_beaver_triple whose first request for a gate forgets the other gates
GetBeaverTriple_reset(tr, gate_id, client_id, d, n, m) ==
    IF InCache(tr, gate_id)
    THEN [ret |-> TripleSlice(tr[gate_id], client_id), triples |-> tr]
    ELSE LET entry == CreateBeaverTriple(d, n, m)
         IN  [ret |-> TripleSlice(entry, client_id),
              triples |-> Put(EmptyDict, gate_id, entry)]

\* TTP.get_beaver_triple on the cache tr; d is what a first request draws.
\* Gives the returned shares and the cache after the call.
GetBeaverTriple(tr, gate_id, client_id, d, n, m) ==
    IF InCache(tr, gate_id)
    THEN [ret |-> TripleSlice(tr[gate_id], client_id), triples |-> tr]
    ELSE LET entry == CreateBeaverTriple(d, n, m)
         IN  [ret |-> TripleSlice(entry, client_id), triples |-> Put(tr, gate_id, entry)]

----------------------------------------------------------------------------
(* class Client. *)

\* a get_input_share that hands every requester the share made for client 0
GetInputShare_first(ish, wire_id, requester_id) == ish[wire_id][1]

\* Client.get_input_share on a client whose input_shares is ish
GetInputShare(ish, wire_id, requester_id) == ish[wire_id][requester_id + 1]

\* Client.local_setup; dr[w] are the draws of create_shares for input wire w
LocalSetupShares(circ, inp, n, m, dr) ==
    [w \in WireIds(circ) \cup DOMAIN inp |->
        IF w \in DOMAIN inp
        THEN CreateShares(inp[w], n, m, dr[w])
        ELSE [k \in 1..n |-> 0]]

\* no exception was raised
NoError == "none"

RECURSIVE InteractiveSetupFrom(_, _, _, _, _, _, _, _, _)
\* the loop of Client.interactive_setup from wire_id on, for client client_id:
\* st holds the TTP's cache, this client's beaver_shares and its input_shares, and
\* the exception raised, if any; all_ish are the input_shares of all clients as the
\* loop started; my_clients is this client's self.clients
InteractiveSetupFrom(circ, st, all_ish, my_clients, client_id, wire_id, fresh, n, m) ==
    IF wire_id >= Len(circ) \/ st.err # NoError THEN st
    ELSE LET wire == WireAt(circ, wire_id)
             next ==
               IF wire.kind = "MultWire"
               THEN LET got == GetBeaverTriple(st.triples, wire_id, client_id,
                                               Get(fresh, wire_id, 0), n, m)
                    IN  [st EXCEPT !.triples = got.triples,
                                   !.beaver = Put(st.beaver, wire_id, got.ret)]
               ELSE IF wire.kind = "InputWire"
               THEN IF wire.owner_id + 1 \notin DOMAIN my_clients
                    THEN \* self.clients[wire.owner_id] on a list that short
                         [st EXCEPT !.err = "IndexError"]
                    ELSE LET owner == my_clients[wire.owner_id + 1]
                             owner_ish == IF owner = client_id THEN st.ish
                                          ELSE all_ish[owner]
                         IN  IF owner_ish = EmptyDict
                             THEN \* the owner has no attribute input_shares yet
                                  [st EXCEPT !.err = "AttributeError"]
                             ELSE [st EXCEPT !.ish[wire_id][client_id + 1] =
                                      GetInputShare(owner_ish, wire_id, client_id)]
               ELSE st
         IN  InteractiveSetupFrom(circ, next, all_ish, my_clients, client_id,
                                  wire_id + 1, fresh, n, m)

\* Client.get_masked_shares
GetMaskedShares(circ, ish, bsh, client_id, wire_id) ==
    LET wire_a == WireAt(circ, wire_id).wire_a_id
        wire_b == WireAt(circ, wire_id).wire_b_id
        a == GetInputShare(ish, wire_a, client_id) - bsh[wire_id][1]
        b == GetInputShare(ish, wire_b, client_id) - bsh[wire_id][2]
    IN  <<a, b>>

\* Client.get_output_share
GetOutputShare(circ, ish, bsh, client_id, wire_id, m) ==
    LET gate == WireAt(circ, wire_id)
    IN  CASE gate.kind = "MultWire" ->
               LET masked_shares == GetMaskedShares(circ, ish, bsh, client_id, wire_id)
                   is_alice == (client_id = 0)
               IN  Mult(is_alice, bsh[wire_id][1], bsh[wire_id][2], bsh[wire_id][3],
                        masked_shares[1], masked_shares[2], m)
          [] gate.kind = "AddWire" ->
               Add(GetInputShare(ish, gate.wire_a_id, client_id),
                   GetInputShare(ish, gate.wire_b_id, client_id), m)
          [] gate.kind = "ConstMultWire" ->
               ConstMult(gate.c, GetInputShare(ish, gate.wire_a_id, client_id), m)
          [] gate.kind = "InputWire" ->
               GetInputShare(ish, wire_id, client_id)
          [] OTHER -> 0

\* the test of run_circuit_until_mult's loop body: it looks at the wire the call
\* started at
AtMult(circ, start_at_wire_id, wire_id) == IsMult(circ, start_at_wire_id)

RECURSIVE RunFrom(_, _, _, _, _, _, _, _)
\* the loop of Client.run_circuit_until_mult from wire_id on: gives the value
\* returned and the client's input_shares and output after the call
RunFrom(circ, ish, out, bsh, client_id, start_at_wire_id, wire_id, m) ==
    IF wire_id >= Len(circ)
    THEN [ret |-> None, ish |-> ish, out |-> out]
    ELSE LET share == GetOutputShare(circ, ish, bsh, client_id, wire_id, m)
             out2 == Put(out, wire_id, share)
             ish2 == [ish EXCEPT ![wire_id][client_id + 1] = share]
         IN  IF AtMult(circ, start_at_wire_id, wire_id)
             THEN [ret |-> wire_id, ish |-> ish2, out |-> out2]
             ELSE RunFrom(circ, ish2, out2, bsh, client_id, start_at_wire_id,
                          wire_id + 1, m)

\* a loop that begins one wire late
RunCircuitUntilMultOf_late(circ, ish, out, bsh, client_id, start_at_wire_id, m) ==
    RunFrom(circ, ish, out, bsh, client_id, start_at_wire_id, start_at_wire_id + 1, m)

\* a run_circuit_until_mult that returns the index before the wire it stopped at
RunCircuitUntilMultOf_back(circ, ish, out, bsh, client_id, start_at_wire_id, m) ==
    LET r == RunFrom(circ, ish, out, bsh, client_id, start_at_wire_id, start_at_wire_id, m)
    IN  [r EXCEPT !.ret = IF r.ret = None THEN None ELSE r.ret - 1]

\* Client.run_circuit_until_mult(start_at_wire_id)
RunCircuitUntilMultOf(circ, ish, out, bsh, client_id, start_at_wire_id, m) ==
    RunFrom(circ, ish, out, bsh, client_id, start_at_wire_id, start_at_wire_id, m)

\* Client.get_outputs
GetOutputs(out) == out

RECURSIVE AggregateFrom(_, _, _, _, _)
\* the last loop of BGW.run_circuit from the client at list index k on
AggregateFrom(acc, outs, k, n, m) ==
    IF k >= n THEN acc
    ELSE LET o == GetOutputs(outs[k])
             acc2 == IF acc = EmptyDict THEN o
                     ELSE [w \in DOMAIN acc |-> (Get(acc, w, 0) + Get(o, w, 0)) % m]
         IN  AggregateFrom(acc2, outs, k + 1, n, m)

----------------------------------------------------------------------------
(* The circuits and inputs the model runs. *)

\* circuits["basic"] of main
BasicCircuit ==
    <<InputWire(FALSE, 0), InputWire(FALSE, 1), InputWire(FALSE, 2),
      AddWire(FALSE, 0, 1), ConstMultWire(FALSE, 6, 2), MultWire(TRUE, 3, 4)>>

\* circuits["adder"] of main
AdderCircuit ==
    <<InputWire(FALSE, 0), InputWire(FALSE, 1), InputWire(FALSE, 2),
      AddWire(FALSE, 0, 1), AddWire(TRUE, 3, 2)>>

\* the clients main constructs: Client(0, .., {0: 9}, ..), Client(1, .., {1: 5}, ..),
\* Client(2, .., {2: 3}, ..)
MainInputs == [c \in 0..2 |-> [w \in {c} |-> <<9, 5, 3>>[c + 1]]]

\* mod of main
MainMod == 1024

\* two inputs feeding one multiplication
TwoInputMult == <<InputWire(FALSE, 0), InputWire(FALSE, 1), MultWire(TRUE, 0, 1)>>

\* a multiplication followed by an addition
MultThenAdd ==
    <<InputWire(FALSE, 0), InputWire(FALSE, 1), MultWire(FALSE, 0, 1), AddWire(TRUE, 2, 0)>>

\* additions and constant multiplications only, with a negative constant
LinearCircuit ==
    <<InputWire(FALSE, 0), InputWire(FALSE, 1), AddWire(FALSE, 0, 1),
      ConstMultWire(TRUE, -2, 2)>>

SmallCircuits == {TwoInputMult, MultThenAdd, LinearCircuit}

InputIds(circ) == {w \in WireIds(circ) : WireAt(circ, w).kind = "InputWire"}

\* the inputs dict of each client when input wire w carries the private value v[w]
\* of its owner
InputsOf(circ, n, v) ==
    [c \in 0..(n - 1) |->
        [w \in {x \in InputIds(circ) : WireAt(circ, x).owner_id = c} |-> v[w]]]

----------------------------------------------------------------------------
(* The state after TTP(...) and the Client(...)s are constructed, as BGW.run_circuit
   is entered. *)

Constructed(circ, n, m, inp) ==
    /\ circuit = circ
    /\ client_count = n
    /\ mod = m
    /\ inputs = inp
    /\ input_shares = [c \in 0..(n - 1) |-> EmptyDict]
    /\ beaver_shares = [c \in 0..(n - 1) |-> EmptyDict]
    /\ output = [c \in 0..(n - 1) |-> EmptyDict]
    /\ triples = EmptyDict
    /\ pc = "local_setup"
    /\ i = 0
    /\ progress = <<>>
    /\ result = EmptyDict
    /\ peers = [c \in 0..(n - 1) |-> <<>>]

\* the clients are listed in id order, as main lists them
InIdOrder == clients = [k \in 1..client_count |-> k - 1]

NoDriver ==
    /\ call = [op |-> "none"]
    /\ returned = EmptyDict
    /\ threads = EmptyDict

Init ==
    /\ \E circ \in SmallCircuits, n \in 2..MaxClients, m \in 2..MaxMod :
         \E v \in [InputIds(circ) -> 0..(m - 1)] :
            Constructed(circ, n, m, InputsOf(circ, n, v))
    /\ InIdOrder
    /\ run_no = 1
    /\ first_result = EmptyDict
    /\ NoDriver

InitBasic ==
    /\ Constructed(BasicCircuit, 3, MainMod, MainInputs)
    /\ InIdOrder
    /\ run_no = 1
    /\ first_result = EmptyDict
    /\ NoDriver

InitAdder ==
    /\ Constructed(AdderCircuit, 3, MainMod, MainInputs)
    /\ InIdOrder
    /\ run_no = 1
    /\ first_result = EmptyDict
    /\ NoDriver

----------------------------------------------------------------------------
(* BGW.run_circuit. *)

config == <<circuit, client_count, mod, inputs>>
drivers == <<call, returned, threads>>
lists == <<clients, peers>>

\* the client at index i of the list
Current == clients[i + 1]

\* clients.sort(key=lambda x: x.client_id): the ids are distinct
SortById(list) ==
    [k \in 1..Len(list) |->
        CHOOSE c \in {list[j] : j \in 1..Len(list)} :
            Cardinality({list[j] : j \in 1..Len(list)} \cap (0..(c - 1))) = k - 1]

runs == <<run_no, first_result>>

\* for client in clients: client.set_clients(clients); client.local_setup()
\* set_clients sorts the list run_circuit is iterating over, in place; every client
\* that has it sees the sorted list
LocalSetup ==
    /\ pc = "local_setup"
    /\ clients' = SortById(clients)
    /\ peers' = [c \in ClientIds |->
                    IF c = Current \/ peers[c] # <<>> THEN clients' ELSE <<>>]
    /\ \E dr \in [DOMAIN inputs[Current] -> DrawSeqs(Len(clients) - 1, mod)] :
         input_shares' = [input_shares EXCEPT ![Current] =
                             LocalSetupShares(circuit, inputs[Current], Len(clients),
                                              mod, dr)]
    /\ IF i + 1 < Len(clients)
       THEN /\ i' = i + 1
            /\ pc' = pc
       ELSE /\ i' = 0
            /\ pc' = "interactive_setup"
    /\ UNCHANGED <<config, beaver_shares, output, triples, progress, result, runs, drivers>>

\* for client in clients: client.interactive_setup()
\* (before the loop, followed by progress = [-1, ...], and at the end of each round);
\* peer_shares, which interactive_setup empties and nothing reads, is left out.
\* An exception raised in interactive_setup ends run_circuit.
InteractiveSetup ==
    /\ pc \in {"interactive_setup", "refresh"}
    /\ \E fresh \in [{g \in MultIds(circuit) : ~InCache(triples, g)} ->
                        TripleDraws(client_count, mod)] :
         LET st == InteractiveSetupFrom(circuit,
                       [triples |-> triples, beaver |-> EmptyDict,
                        ish |-> input_shares[Current], err |-> NoError],
                       input_shares, peers[Current], Current, 0, fresh, client_count, mod)
         IN  /\ triples' = st.triples
             /\ beaver_shares' = [beaver_shares EXCEPT ![Current] = st.beaver]
             /\ input_shares' = [input_shares EXCEPT ![Current] = st.ish]
             /\ IF st.err # NoError
                THEN /\ pc' = st.err
                     /\ i' = i
                     /\ progress' = progress
                ELSE IF i + 1 < Len(clients)
                THEN /\ i' = i + 1
                     /\ pc' = pc
                     /\ progress' = progress
                ELSE /\ i' = 0
                     /\ pc' = "loop_test"
                     /\ progress' = IF pc = "interactive_setup"
                                    THEN [k \in 1..Len(clients) |-> -1]
                                    ELSE progress
    /\ UNCHANGED <<config, output, result, runs, drivers, lists>>

\* while True: if progress[0] is None: break
LoopTest ==
    /\ pc = "loop_test"
    /\ pc' = IF progress[1] = None THEN "aggregate" ELSE "run"
    /\ i' = 0
    /\ UNCHANGED <<config, input_shares, beaver_shares, output, triples, progress,
                   result, runs, drivers, lists>>

\* a run_circuit_until_mult that caches its shares in every client's output
RunCircuitUntilMult_everyone ==
    /\ pc = "run"
    /\ progress[i + 1] # None
    /\ LET r == RunCircuitUntilMultOf(circuit, input_shares[Current], output[Current],
                                      beaver_shares[Current], Current,
                                      progress[i + 1] + 1, mod)
       IN  /\ progress' = [progress EXCEPT ![i + 1] = r.ret]
           /\ input_shares' = [input_shares EXCEPT ![Current] = r.ish]
           /\ output' = [c \in ClientIds |-> r.out]
    /\ IF i + 1 < Len(clients)
       THEN /\ i' = i + 1
            /\ pc' = pc
       ELSE /\ i' = 0
            /\ pc' = "refresh"
    /\ UNCHANGED <<config, beaver_shares, triples, result, runs, drivers, lists>>

\* for i, client in enumerate(clients):
\*     progress[i] = client.run_circuit_until_mult(progress[i]+1)
\* (None + 1 raises a TypeError)
RunCircuitUntilMult ==
    /\ pc = "run"
    /\ progress[i + 1] # None
    /\ LET r == RunCircuitUntilMultOf(circuit, input_shares[Current], output[Current],
                                      beaver_shares[Current], Current,
                                      progress[i + 1] + 1, mod)
       IN  /\ progress' = [progress EXCEPT ![i + 1] = r.ret]
           /\ input_shares' = [input_shares EXCEPT ![Current] = r.ish]
           /\ output' = [output EXCEPT ![Current] = r.out]
    /\ IF i + 1 < Len(clients)
       THEN /\ i' = i + 1
            /\ pc' = pc
       ELSE /\ i' = 0
            /\ pc' = "refresh"
    /\ UNCHANGED <<config, beaver_shares, triples, result, runs, drivers, lists>>

\* the aggregation of the clients' get_outputs() and the return
Aggregate ==
    /\ pc = "aggregate"
    /\ result' = AggregateFrom(EmptyDict, [k \in 0..(Len(clients) - 1) |-> output[clients[k + 1]]],
                               0, Len(clients), mod)
    /\ pc' = "done"
    /\ UNCHANGED <<config, input_shares, beaver_shares, output, triples, i, progress,
                   runs, drivers, lists>>

Next ==
    \/ LocalSetup
    \/ InteractiveSetup
    \/ LoopTest
    \/ RunCircuitUntilMult
    \/ Aggregate

Spec == Init /\ [][Next]_vars

\* run_circuit is one sequential call: it goes on as long as it has a step to take
SpecFair == Init /\ [][Next]_vars /\ WF_vars(Next)

\* main with circuits["basic"]
SpecBasic == InitBasic /\ [][Next]_vars

\* main with circuits["adder"]; run_circuit is one thread that always takes its next step
SpecAdder == InitAdder /\ [][Next]_vars /\ WF_vars(Next)

\* run_circuit called a second time on clients and a TTP constructed anew from the
\* same circuit, inputs, modulus and client count
Rerun ==
    /\ pc = "done"
    /\ run_no = 1
    /\ run_no' = 2
    /\ first_result' = result
    /\ input_shares' = [c \in ClientIds |-> EmptyDict]
    /\ beaver_shares' = [c \in ClientIds |-> EmptyDict]
    /\ output' = [c \in ClientIds |-> EmptyDict]
    /\ triples' = EmptyDict
    /\ pc' = "local_setup"
    /\ i' = 0
    /\ progress' = <<>>
    /\ result' = EmptyDict
    /\ peers' = [c \in ClientIds |-> <<>>]
    /\ UNCHANGED <<config, drivers, clients>>

NextTwoRuns == Next \/ Rerun

\* two executions that differ only in what the rng draws
SpecTwoRuns == Init /\ [][NextTwoRuns]_vars

----------------------------------------------------------------------------
(* A driver of the share arithmetic: it calls the static methods of BGW on its own,
   with every value the rng can draw. The methods keep no state, so a behaviour
   makes one call. *)

orchestrator == <<input_shares, beaver_shares, output, triples, pc, i, progress, result,
                  clients, peers>>

PureSizes == {nm \in (2..PureMaxSize) \X (2..PureMaxSize) : nm[1] + nm[2] <= PureMaxSize}

PureVals == (-PureMaxVal)..PureMaxVal

InitShares ==
    /\ circuit = <<>>
    /\ client_count = 0
    /\ mod = 0
    /\ inputs = EmptyDict
    /\ input_shares = EmptyDict
    /\ beaver_shares = EmptyDict
    /\ output = EmptyDict
    /\ triples = EmptyDict
    /\ pc = "driver"
    /\ i = 0
    /\ progress = <<>>
    /\ result = EmptyDict
    /\ run_no = 1
    /\ first_result = EmptyDict
    /\ clients = <<>>
    /\ peers = EmptyDict
    /\ NoDriver

\* shares = BGW.create_shares(rng, secret, n, m); BGW.recover_secret(shares, m)
CallCreateShares ==
    /\ call.op = "none"
    /\ \E nm \in PureSizes, secret \in PureVals :
         \E draws \in [1..(nm[1] - 1) -> 0..(nm[2] - 1)] :
            LET shares == CreateShares(secret, nm[1], nm[2], draws)
            IN  call' = [op |-> "create_shares", secret |-> secret, share_count |-> nm[1],
                         mod |-> nm[2], shares |-> shares,
                         recovered |-> RecoverSecret(shares, nm[2])]
    /\ UNCHANGED <<config, orchestrator, runs, returned, threads>>

\* two secrets shared independently; each party k computes BGW.add(a[k], b[k], m)
CallAdd ==
    /\ call.op = "none"
    /\ \E nm \in PureSizes, A \in PureVals, B \in PureVals :
         \E da \in [1..(nm[1] - 1) -> 0..(nm[2] - 1)],
            db \in [1..(nm[1] - 1) -> 0..(nm[2] - 1)] :
            LET a == CreateShares(A, nm[1], nm[2], da)
                b == CreateShares(B, nm[1], nm[2], db)
            IN  call' = [op |-> "add", A |-> A, B |-> B, share_count |-> nm[1],
                         mod |-> nm[2], a_shares |-> a, b_shares |-> b,
                         out |-> [k \in 1..nm[1] |-> Add(a[k], b[k], nm[2])]]
    /\ UNCHANGED <<config, orchestrator, runs, returned, threads>>

\* a shared secret; each party k computes BGW.const_mult(c, a[k], m)
CallConstMult ==
    /\ call.op = "none"
    /\ \E nm \in PureSizes, A \in PureVals, c \in PureVals :
         \E da \in [1..(nm[1] - 1) -> 0..(nm[2] - 1)] :
            LET a == CreateShares(A, nm[1], nm[2], da)
            IN  call' = [op |-> "const_mult", A |-> A, c |-> c, share_count |-> nm[1],
                         mod |-> nm[2], a_shares |-> a,
                         out |-> [k \in 1..nm[1] |-> ConstMult(c, a[k], nm[2])]]
    /\ UNCHANGED <<config, orchestrator, runs, returned, threads>>

\* a triple shared as _create_beaver_triple shares it; the differences A - x and
\* B - y are opened, and each party k computes BGW.mult(k == 0, x[k], y[k], z[k], D, E, m)
CallMult ==
    /\ call.op = "none"
    /\ \E nm \in PureSizes :
         \E A \in 0..(nm[2] - 1), B \in 0..(nm[2] - 1),
            d \in [x : 0..(nm[2] - 1), y : 0..(nm[2] - 1),
                   xs : [1..(nm[1] - 1) -> 0..(nm[2] - 1)],
                   ys : [1..(nm[1] - 1) -> 0..(nm[2] - 1)],
                   zs : [1..(nm[1] - 1) -> 0..(nm[2] - 1)]] :
            LET t == CreateBeaverTriple(d, nm[1], nm[2])
                D == (A - RecoverSecret(t[1], nm[2])) % nm[2]
                E == (B - RecoverSecret(t[2], nm[2])) % nm[2]
            IN  call' = [op |-> "mult", A |-> A, B |-> B, share_count |-> nm[1],
                         mod |-> nm[2], triple |-> t, D |-> D, E |-> E,
                         out |-> [k \in 1..nm[1] |->
                                    Mult(k = 1, t[1][k], t[2][k], t[3][k], D, E, nm[2])]]
    /\ UNCHANGED <<config, orchestrator, runs, returned, threads>>

NextShares ==
    \/ CallCreateShares
    \/ CallAdd
    \/ CallConstMult
    \/ CallMult

SpecShares == InitShares /\ [][NextShares]_vars

----------------------------------------------------------------------------
(* A driver of the triple authority: after TTP(client_count, mod, rng), clients call
   get_beaver_triple in any order, any gate, repeatedly. *)

InitTTP ==
    /\ \E n \in 2..MaxClients, m \in 2..MaxMod :
         /\ client_count = n
         /\ mod = m
         /\ returned = [gp \in (0..MaxGate) \X (0..(n - 1)) |-> [calls |-> 0, vals |-> {}]]
    /\ circuit = <<>>
    /\ inputs = EmptyDict
    /\ input_shares = EmptyDict
    /\ beaver_shares = EmptyDict
    /\ output = EmptyDict
    /\ triples = EmptyDict
    /\ pc = "driver"
    /\ i = 0
    /\ progress = <<>>
    /\ result = EmptyDict
    /\ run_no = 1
    /\ first_result = EmptyDict
    /\ clients = <<>>
    /\ peers = EmptyDict
    /\ threads = EmptyDict
    /\ call = [op |-> "none"]

\* ttp.get_beaver_triple(gate_id, client_id)
CallGetBeaverTriple ==
    /\ \E gate_id \in 0..MaxGate, client_id \in ClientIds :
         /\ returned[<<gate_id, client_id>>].calls < MaxCalls
         /\ \E d \in IF InCache(triples, gate_id) THEN {0}
                     ELSE TripleDraws(client_count, mod) :
              LET got == GetBeaverTriple(triples, gate_id, client_id, d, client_count, mod)
              IN  /\ triples' = got.triples
                  /\ returned' = [returned EXCEPT ![<<gate_id, client_id>>] =
                                     [calls |-> @.calls + 1, vals |-> @.vals \cup {got.ret}]]
    /\ UNCHANGED <<config, input_shares, beaver_shares, output, pc, i, progress, result,
                   runs, call, lists, threads>>

NextTTP == CallGetBeaverTriple

SpecTTP == InitTTP /\ [][NextTTP]_vars

----------------------------------------------------------------------------
(* A peer calling Client.get_input_share on its own, at any point of run_circuit: the
   callee, the wire and the requester id are the caller's choice. *)

\* list[k] of Python as an index of the sequence: a negative k counts from the end
PyIndex(list, k) == IF k >= 0 THEN k + 1 ELSE Len(list) + k + 1

\* Client.get_input_share(wire_id, requester_id) with the exceptions of Python:
\* ish is the callee's input_shares, EmptyDict while the attribute is not yet set
GetInputShareOutcome(ish, wire_id, requester_id) ==
    IF ish = EmptyDict THEN [err |-> "AttributeError", ret |-> None]
    ELSE IF wire_id \notin DOMAIN ish THEN [err |-> "KeyError", ret |-> None]
    ELSE IF PyIndex(ish[wire_id], requester_id) \notin DOMAIN ish[wire_id]
    THEN [err |-> "IndexError", ret |-> None]
    ELSE [err |-> NoError,
          ret |-> GetInputShare(ish, wire_id, PyIndex(ish[wire_id], requester_id) - 1)]

\* the requester ids a caller tries: the valid ones, -1 and client_count
Requesters == (-1)..client_count

\* clients[callee].get_input_share(wire_id, requester_id)
CallGetInputShare ==
    /\ call.op = "none"
    /\ pc # "driver"
    /\ \E callee \in ClientIds, wire_id \in 0..Len(circuit), requester_id \in Requesters :
         LET got == GetInputShareOutcome(input_shares[callee], wire_id, requester_id)
         IN  call' = [op |-> "get_input_share", callee |-> callee, wire_id |-> wire_id,
                      requester_id |-> requester_id, err |-> got.err, ret |-> got.ret]
    /\ UNCHANGED <<config, orchestrator, runs, returned, threads>>

InitPeer ==
    /\ \E n \in 2..MaxClients, m \in 2..MaxMod :
         \E v \in [InputIds(LinearCircuit) -> 0..(m - 1)] :
            Constructed(LinearCircuit, n, m, InputsOf(LinearCircuit, n, v))
    /\ InIdOrder
    /\ run_no = 1
    /\ first_result = EmptyDict
    /\ NoDriver

\* run_circuit goes on until the peer has made its call
NextPeer ==
    \/ call.op = "none" /\ LocalSetup
    \/ call.op = "none" /\ InteractiveSetup
    \/ call.op = "none" /\ LoopTest
    \/ call.op = "none" /\ RunCircuitUntilMult
    \/ call.op = "none" /\ Aggregate
    \/ CallGetInputShare

SpecPeer == InitPeer /\ [][NextPeer]_vars

----------------------------------------------------------------------------
(* run_circuit on circuits in which a wire refers to itself or to a later wire: the
   Client constructor stores the circuit as it is given. *)

\* wire 2 adds itself to wire 0
SelfReference ==
    <<InputWire(FALSE, 0), InputWire(FALSE, 1), AddWire(TRUE, 2, 0)>>

\* wire 1 scales wire 2, which comes after it
ForwardReference ==
    <<InputWire(FALSE, 0), ConstMultWire(TRUE, 2, 2), InputWire(FALSE, 1)>>

\* wire 0 multiplies the two wires after it
MultFirst ==
    <<MultWire(TRUE, 1, 2), InputWire(FALSE, 0), InputWire(FALSE, 1)>>

MalformedCircuits == {SelfReference, ForwardReference, MultFirst}

InitMalformed ==
    /\ \E circ \in MalformedCircuits, n \in 2..MaxClients, m \in 2..MaxMod :
         \E v \in [InputIds(circ) -> 0..(m - 1)] :
            Constructed(circ, n, m, InputsOf(circ, n, v))
    /\ InIdOrder
    /\ run_no = 1
    /\ first_result = EmptyDict
    /\ NoDriver

SpecMalformed == InitMalformed /\ [][Next]_vars

----------------------------------------------------------------------------
(* Client.interactive_setup called once more on some client, at any point after the
   setup of run_circuit (local_setup and interactive_setup on every client). *)

AfterSetup == pc \in {"loop_test", "run", "refresh", "aggregate", "done"}

\* clients[client_id].interactive_setup()
CallInteractiveSetup ==
    /\ call.op = "none"
    /\ AfterSetup
    /\ \E client_id \in ClientIds :
         \E fresh \in [{g \in MultIds(circuit) : ~InCache(triples, g)} ->
                          TripleDraws(client_count, mod)] :
           LET st == InteractiveSetupFrom(circuit,
                         [triples |-> triples, beaver |-> EmptyDict,
                          ish |-> input_shares[client_id], err |-> NoError],
                         input_shares, peers[client_id], client_id, 0, fresh,
                         client_count, mod)
           IN  /\ triples' = st.triples
               /\ beaver_shares' = [beaver_shares EXCEPT ![client_id] = st.beaver]
               /\ input_shares' = [input_shares EXCEPT ![client_id] = st.ish]
               /\ call' = [op |-> "interactive_setup", client_id |-> client_id,
                           err |-> st.err]
    /\ UNCHANGED <<config, output, pc, i, progress, result, runs, returned, threads, lists>>

NextResetup ==
    \/ Next
    \/ CallInteractiveSetup

SpecResetup == Init /\ [][NextResetup]_vars

----------------------------------------------------------------------------
(* run_circuit on a list that holds the clients in any order. *)

\* the lists of the n clients
Orders(n) ==
    {list \in [1..n -> 0..(n - 1)] : \A j, k \in 1..n : list[j] = list[k] => j = k}

InitOrder ==
    /\ \E circ \in SmallCircuits, n \in 2..MaxClients, m \in 2..MaxMod :
         \E v \in [InputIds(circ) -> 0..(m - 1)] :
            Constructed(circ, n, m, InputsOf(circ, n, v))
    /\ clients \in Orders(client_count)
    /\ run_no = 1
    /\ first_result = EmptyDict
    /\ NoDriver

SpecOrder == InitOrder /\ [][Next]_vars

----------------------------------------------------------------------------
(* The triple authority called by the clients concurrently: every client is a thread
   whose call of get_beaver_triple runs statement by statement, and nothing in TTP
   keeps another thread from running between two statements. *)

\* a thread between two calls; its calls are all for gate gate_id
Idle(gate_id) == [at |-> "idle", gate_id |-> gate_id, entry |-> <<>>]

InitRace ==
    /\ \E n \in 2..MaxClients, m \in 2..MaxMod, gate_id \in 0..MaxGate :
         /\ client_count = n
         /\ mod = m
         /\ returned = [gp \in (0..MaxGate) \X (0..(n - 1)) |-> [calls |-> 0, vals |-> {}]]
         /\ threads = [p \in 0..(n - 1) |-> Idle(gate_id)]
    /\ circuit = <<>>
    /\ inputs = EmptyDict
    /\ input_shares = EmptyDict
    /\ beaver_shares = EmptyDict
    /\ output = EmptyDict
    /\ triples = EmptyDict
    /\ pc = "driver"
    /\ i = 0
    /\ progress = <<>>
    /\ result = EmptyDict
    /\ run_no = 1
    /\ first_result = EmptyDict
    /\ clients = <<>>
    /\ peers = EmptyDict
    /\ call = [op |-> "none"]

\* what a thread's return adds to the record of returned shares
Returns(gate_id, client_id, ret) ==
    [returned EXCEPT ![<<gate_id, client_id>>] =
        [calls |-> @.calls + 1, vals |-> @.vals \cup {ret}]]

\* what no thread of the authority touches
outside == <<config, input_shares, beaver_shares, output, pc, i, progress, result,
             runs, call, lists>>

\* client p calls ttp.get_beaver_triple(gate_id, p)
ThreadCall ==
    /\ \E p \in ClientIds :
         /\ threads[p].at = "idle"
         /\ returned[<<threads[p].gate_id, p>>].calls < MaxCalls
         /\ threads' = [threads EXCEPT ![p].at = "lookup"]
    /\ UNCHANGED <<triples, returned, outside>>

\* if gate_id in self.triples: return [the client's entries of self.triples[gate_id]]
ThreadLookup ==
    /\ \E p \in ClientIds :
         /\ threads[p].at = "lookup"
         /\ IF InCache(triples, threads[p].gate_id)
            THEN /\ returned' = Returns(threads[p].gate_id, p,
                                        TripleSlice(triples[threads[p].gate_id], p))
                 /\ threads' = [threads EXCEPT ![p] = Idle(threads[p].gate_id)]
            ELSE /\ threads' = [threads EXCEPT ![p].at = "create"]
                 /\ returned' = returned
    /\ UNCHANGED <<triples, outside>>

\* _create_beaver_triple up to z_shares = ...: the new triple is in local variables
ThreadCreate ==
    /\ \E p \in ClientIds :
         /\ threads[p].at = "create"
         /\ \E d \in TripleDraws(client_count, mod) :
              threads' = [threads EXCEPT
                             ![p].at = "store",
                             ![p].entry = CreateBeaverTriple(d, client_count, mod)]
    /\ UNCHANGED <<triples, returned, outside>>

\* self.triples[gate_id] = [x_shares, y_shares, z_shares]
ThreadStore ==
    /\ \E p \in ClientIds :
         /\ threads[p].at = "store"
         /\ triples' = Put(triples, threads[p].gate_id, threads[p].entry)
         /\ threads' = [threads EXCEPT ![p].at = "return"]
    /\ UNCHANGED <<returned, outside>>

\* return [x_shares[client_id], y_shares[client_id], z_shares[client_id]]
ThreadReturn ==
    /\ \E p \in ClientIds :
         /\ threads[p].at = "return"
         /\ returned' = Returns(threads[p].gate_id, p, TripleSlice(threads[p].entry, p))
         /\ threads' = [threads EXCEPT ![p] = Idle(threads[p].gate_id)]
    /\ UNCHANGED <<triples, outside>>

NextRace ==
    \/ ThreadCall
    \/ ThreadLookup
    \/ ThreadCreate
    \/ ThreadStore
    \/ ThreadReturn

SpecRace == InitRace /\ [][NextRace]_vars

----------------------------------------------------------------------------
(* run_circuit on circuits without a Mult wire, with up to LinearClients clients and
   private inputs that need not lie in 0..mod-1. *)

\* wire 1 negates wire 0, wire 3 adds wire 2 to it
NegateThenAdd ==
    <<InputWire(FALSE, 0), ConstMultWire(FALSE, -1, 0), InputWire(FALSE, 1),
      AddWire(TRUE, 1, 2)>>

LinearCircuits == {LinearCircuit, NegateThenAdd}

\* the private inputs tried under modulus m: one below 0, one above m - 1
LinearVals(m) == (-1)..m

InitLinear ==
    /\ \E circ \in LinearCircuits, n \in 2..LinearClients, m \in 2..MaxMod :
         \E v \in [InputIds(circ) -> LinearVals(m)] :
            Constructed(circ, n, m, InputsOf(circ, n, v))
    /\ InIdOrder
    /\ run_no = 1
    /\ first_result = EmptyDict
    /\ NoDriver

SpecLinear == InitLinear /\ [][Next]_vars

----------------------------------------------------------------------------
(* run_circuit on the small circuits and on a circuit that begins with a Mult wire,
   the one case in which run_circuit_until_mult returns an index. *)

CursorCircuits == SmallCircuits \cup {MultFirst}

InitCursor ==
    /\ \E circ \in CursorCircuits, n \in 2..MaxClients, m \in 2..MaxMod :
         \E v \in [InputIds(circ) -> 0..(m - 1)] :
            Constructed(circ, n, m, InputsOf(circ, n, v))
    /\ InIdOrder
    /\ run_no = 1
    /\ first_result = EmptyDict
    /\ NoDriver

SpecCursor == InitCursor /\ [][Next]_vars

----------------------------------------------------------------------------
(* The claims. *)

\* the clients' cached shares of wire w, in client order
OutputSharesOf(w) == [k \in 1..client_count |-> output[k - 1][w]]

\* C1: with 3 parties, modulus 1024, the circuit "basic" and the inputs 9, 5 and 3,
\* run_circuit reconstructs 252 for wire 5, whatever the rng draws.
C1_BasicYields252 ==
    pc = "done" => (5 \in DOMAIN result /\ result[5] = 252)

\* C2: for two Input wires with private values A and B feeding one Mult wire, the
\* sum mod m of all parties' cached shares of the Mult wire is (A*B) mod m.
C2_MultReconstructsProduct ==
    (pc = "done" /\ circuit = TwoInputMult) =>
        RecoverSecret(OutputSharesOf(2), mod) = (inputs[0][0] * inputs[1][1]) % mod

\* C3: two executions of run_circuit on the same circuit, inputs, modulus and
\* party count, differing only in what the rng draws, reconstruct the same value
\* for every output wire.
C3_SameOutputsForAllDraws ==
    (pc = "done" /\ run_no = 2) =>
        \A w \in OutputIds(circuit) :
            /\ w \in DOMAIN result
            /\ w \in DOMAIN first_result
            /\ result[w] = first_result[w]

\* C4: the keys of the mapping run_circuit returns are exactly the wires flagged
\* is_output, and each party's get_outputs holds shares of such wires only.
C4_OnlyOutputWiresReturned ==
    pc = "done" =>
        /\ DOMAIN result = OutputIds(circuit)
        /\ \A c \in ClientIds : DOMAIN GetOutputs(output[c]) \subseteq OutputIds(circuit)

\* C5: with 3 parties, modulus 1024, the circuit "adder" and the inputs 9, 5 and 3,
\* run_circuit terminates, and the value it reconstructs for wire 4 is 17, whatever
\* the rng draws.
C5_AdderYields17 ==
    /\ <>(pc = "done")
    /\ [](pc = "done" => (4 \in DOMAIN result /\ result[4] = 17))

\* run_circuit has returned on the adder, with shares that differ between clients
C5_Witness ==
    /\ pc = "done"
    /\ circuit = AdderCircuit
    /\ result[4] = 17
    /\ output[0][4] # output[1][4]

\* C6: create_shares returns exactly n shares, and recover_secret of them is
\* s mod m, for every secret s, n >= 2, m > 1 and every draw of the n-1 random shares.
C6_RoundTrip ==
    call.op = "create_shares" =>
        /\ Len(call.shares) = call.share_count
        /\ call.recovered = call.secret % call.mod

\* a negative secret split into three shares, the drawn ones not zero
C6_Witness ==
    /\ call.op = "create_shares"
    /\ call.secret < 0
    /\ call.share_count = 3
    /\ call.shares[1] > 0
    /\ call.shares[2] > 0
    /\ call.recovered > 0

\* C7: recombining the parties' BGW.add(a_i, b_i, m) of two independently shared
\* secrets gives (A+B) mod m, and recombining their BGW.const_mult(c, a_i, m)
\* gives (c*A) mod m, for every integer c, negative ones included.
C7_Linearity ==
    /\ call.op = "add" =>
          RecoverSecret(call.out, call.mod) = (call.A + call.B) % call.mod
    /\ call.op = "const_mult" =>
          RecoverSecret(call.out, call.mod) = (call.c * call.A) % call.mod

\* a shared secret scaled by a negative constant to a value that is not 0
C7_Witness ==
    /\ call.op = "const_mult"
    /\ call.c < 0
    /\ call.share_count = 3
    /\ call.a_shares[1] > 0
    /\ RecoverSecret(call.out, call.mod) # 0

\* C8: with the opened differences D = (A - x) mod m and E = (B - y) mod m and
\* party 0 alone designated, the parties' BGW.mult(i == 0, x_i, y_i, z_i, D, E, m)
\* recombine (sum mod m) to (A*B) mod m, for every sharing of a triple z = x*y mod m.
C8_MultWithOpenedDifferences ==
    call.op = "mult" =>
        RecoverSecret(call.out, call.mod) = (call.A * call.B) % call.mod

\* three parties, a cross term D*E that does not vanish, and a product that is not 0
C8_Witness ==
    /\ call.op = "mult"
    /\ call.share_count = 3
    /\ (call.D * call.E) % call.mod # 0
    /\ (call.A * call.B) % call.mod # 0
    /\ call.out[2] # 0

\* the shares get_beaver_triple has returned for gate g, one per client, for every
\* way to pick one of the values returned to each client
ReturnedPicks(g) ==
    {f \in [ClientIds -> UNION {returned[<<g, p>>].vals : p \in ClientIds}] :
        \A p \in ClientIds : f[p] \in returned[<<g, p>>].vals}

\* C9: however get_beaver_triple is called, the call for (g, p) always returns the
\* same three values, and over all p the x-, y- and z-shares returned for g sum
\* mod m to x, y, z with z = (x*y) mod m.
C9_TripleConsistency ==
    \A g \in 0..MaxGate :
        /\ \A p \in ClientIds : Cardinality(returned[<<g, p>>].vals) <= 1
        /\ \A f \in ReturnedPicks(g) :
              LET x == RecoverSecret([k \in 1..client_count |-> f[k - 1][1]], mod)
                  y == RecoverSecret([k \in 1..client_count |-> f[k - 1][2]], mod)
                  z == RecoverSecret([k \in 1..client_count |-> f[k - 1][3]], mod)
              IN  z = (x * y) % mod

\* every client has asked twice for the same gate, whose triple has z # 0
C9_Witness ==
    \E g \in 0..MaxGate :
        /\ \A p \in ClientIds : returned[<<g, p>>].calls >= 2
        /\ g \in DOMAIN triples
        /\ RecoverSecret(triples[g][3], mod) # 0

\* C10: run_circuit_until_mult(fromIndex) returns the index of the first Mult wire
\* at or after fromIndex, caching no share for a wire of higher index during the
\* call, and returns None only when there is no such Mult wire.
C10_StopsAtFirstMult ==
    [][pc = "run" =>
         LET fromIndex == progress[i + 1] + 1
             later == {w \in MultIds(circuit) : w >= fromIndex}
         IN  IF later # {}
             THEN LET first == CHOOSE w \in later : \A v \in later : w <= v
                  IN  /\ progress'[i + 1] = first
                      /\ \A w \in WireIds(circuit) :
                            w > first => Get(output'[i], w, None) = Get(output[i], w, None)
             ELSE progress'[i + 1] = None]_vars

\* client c owns wire w: w is an Input wire of the circuit whose owner is c
Owns(c, w) ==
    /\ w \in WireIds(circuit)
    /\ WireAt(circuit, w).kind = "InputWire"
    /\ WireAt(circuit, w).owner_id = c

\* C11: get_input_share called on a party that does not own the wire fails; it
\* returns no value, neither the placeholder 0 nor that party's own share.
C11_NonOwnerFails ==
    (call.op = "get_input_share" /\ ~Owns(call.callee, call.wire_id))
        => call.err # NoError

\* C12: get_input_share called with a requester id outside 0..n-1, -1 included,
\* fails; it returns no share generated for another party.
C12_RequesterOutOfRangeFails ==
    (call.op = "get_input_share" /\ call.requester_id \notin ClientIds)
        => call.err # NoError

\* the wires that wire reads
Predecessors(wire) ==
    CASE wire.kind = "InputWire" -> {}
      [] wire.kind = "ConstMultWire" -> {wire.wire_a_id}
      [] OTHER -> {wire.wire_a_id, wire.wire_b_id}

\* some wire of circ reads itself or a later wire
Malformed(circ) ==
    \E w \in WireIds(circ) : \E p \in Predecessors(WireAt(circ, w)) : p >= w

\* C13: a circuit with a self-reference or a forward reference is rejected before
\* evaluation: no party ever evaluates (caches a share of) a wire of it.
C13_MalformedNotEvaluated ==
    Malformed(circuit) => \A c \in ClientIds : DOMAIN output[c] = {}

\* client c's own share of every wire, its cached outputs and its triple shares are
\* the same after the step as before it
OwnSharesKept(c) ==
    /\ \A w \in WireIds(circuit) :
          input_shares'[c][w][c + 1] = input_shares[c][w][c + 1]
    /\ output'[c] = output[c]
    /\ beaver_shares'[c] = beaver_shares[c]

\* C14: interactive_setup called again on a client after the setup, in a refresh of
\* run_circuit or on its own, leaves that client's share of every Input wire, its
\* cached share of every evaluated wire and its triple shares as they were.
C14_InteractiveSetupIdempotent ==
    [][/\ pc = "refresh" => OwnSharesKept(Current)
       /\ (call.op = "none" /\ call'.op = "interactive_setup")
             => OwnSharesKept(call'.client_id)]_vars

\* an extra interactive_setup on a client that has evaluated a Mult wire, after
\* which the run went on to its end
C14_Witness ==
    /\ call.op = "interactive_setup"
    /\ call.err = NoError
    /\ MultIds(circuit) # {}
    /\ pc = "done"

\* C15: throughout run_circuit, the triple share a client holds for a Mult wire is
\* what get_beaver_triple returned to it: the entries at its own id of the cached x,
\* y and z share vectors of that gate, and of no other client.
C15_OwnTripleSlice ==
    \A c \in ClientIds :
        \A g \in DOMAIN beaver_shares[c] :
            /\ g \in DOMAIN triples
            /\ \A k \in 1..3 : beaver_shares[c][g][k] = triples[g][k][c + 1]

\* a finished run in which the clients' slices of some cached triple differ and
\* client 1 holds its own
C15_Witness ==
    /\ pc = "done"
    /\ \E g \in DOMAIN triples :
          /\ \A k \in 1..3 : triples[g][k][1] # triples[g][k][2]
          /\ g \in DOMAIN beaver_shares[1]
          /\ beaver_shares[1][g] = <<triples[g][1][2], triples[g][2][2], triples[g][3][2]>>

\* C16: on every well-formed circuit shared by n >= 2 clients the evaluation loop of
\* run_circuit ends, and once it has ended every client's cursor is None and every
\* client has cached a share of every wire.
C16_EvaluationTerminates ==
    /\ <>(pc = "done")
    /\ [](pc \in {"aggregate", "done"} =>
            \A c \in ClientIds :
                /\ progress[c + 1] = None
                /\ DOMAIN output[c] = WireIds(circuit))

\* the loop has just been left on a circuit with a Mult wire that is not its last wire
C16_Witness ==
    /\ pc = "aggregate"
    /\ \E w \in MultIds(circuit) : w + 1 < Len(circuit)
    /\ \A c \in ClientIds : progress[c + 1] = None /\ DOMAIN output[c] = WireIds(circuit)

\* local_setup has been executed on client c: it has the attribute input_shares
HasLocalSetup(c) == input_shares[c] # EmptyDict

\* C17: whatever the order of the clients in the list, the setup executes
\* local_setup on every client before any client's interactive_setup starts.
C17_LocalSetupOnEveryClient ==
    pc # "local_setup" => \A c \in ClientIds : HasLocalSetup(c)

\* C18: when the clients' first requests for a gate run concurrently, every share
\* returned for the gate is the client's slice of the one triple cached for it: the
\* authority has not handed out shares of two different triples.
C18_OneTriplePerGate ==
    \A g \in 0..MaxGate : \A p \in ClientIds :
        \A ret \in returned[<<g, p>>].vals :
            /\ g \in DOMAIN triples
            /\ \A k \in 1..3 : ret[k] = triples[g][k][p + 1]

\* the shares agree at every position but j
SameView(shares_a, shares_b, j) ==
    \A k \in DOMAIN shares_a : k # j => shares_a[k] = shares_b[k]

\* C19: whatever n-1 of the n shares create_shares has produced for a secret, the
\* same values at the same positions can be produced for every other secret under
\* the same modulus, by some other draw.
C19_ViewsHideSecret ==
    call.op = "create_shares" =>
        \A other \in PureVals : \A j \in 1..call.share_count :
            \E draws \in [1..(call.share_count - 1) -> 0..(call.mod - 1)] :
                SameView(call.shares,
                         CreateShares(other, call.share_count, call.mod, draws), j)

\* the largest secret split into three shares, the final one not zero
C19_Witness ==
    /\ call.op = "create_shares"
    /\ call.secret = PureMaxVal
    /\ call.share_count = 3
    /\ call.shares[3] # 0
    /\ call.secret % call.mod # 0

\* no client has cached a wire behind a Mult wire that some client has not cached yet
LockStep ==
    \A c \in ClientIds : \A w \in MultIds(circuit) : \A v \in DOMAIN output[c] :
        v > w => \A other \in ClientIds : w \in DOMAIN output[other]

\* C20: the clients evaluate in lock-step around Mult wires: no client caches a wire
\* behind a Mult wire before every client has cached that Mult wire, and one call of
\* run_circuit_until_mult, the only evaluation between two refreshes, caches at most
\* one Mult wire.
C20_LockStepAroundMult ==
    [][/\ LockStep'
       /\ pc = "run" =>
            Cardinality((DOMAIN output'[Current] \ DOMAIN output[Current])
                            \cap MultIds(circuit)) <= 1]_vars

RECURSIVE PlainValue(_, _, _)
\* the value of wire w of circ over the integers, when Input wire x carries
\* inp[owner of x][x]
PlainValue(circ, inp, w) ==
    LET wire == WireAt(circ, w)
    IN  CASE wire.kind = "InputWire" -> inp[wire.owner_id][w]
          [] wire.kind = "AddWire" ->
                PlainValue(circ, inp, wire.wire_a_id) + PlainValue(circ, inp, wire.wire_b_id)
          [] wire.kind = "ConstMultWire" ->
                wire.c * PlainValue(circ, inp, wire.wire_a_id)
          [] OTHER ->
                PlainValue(circ, inp, wire.wire_a_id) * PlainValue(circ, inp, wire.wire_b_id)

\* C21: on a circuit without a Mult wire, the value run_circuit reconstructs for
\* every wire, the sum of the clients' cached shares mod m, is the plain value of
\* the wire over the private inputs, mod m; ConstMult wires with a negative constant
\* included.
C21_LinearCircuitsCorrect ==
    (pc = "done" /\ MultIds(circuit) = {}) =>
        \A w \in WireIds(circuit) :
            /\ w \in DOMAIN result
            /\ result[w] = PlainValue(circuit, inputs, w) % mod
            /\ RecoverSecret(OutputSharesOf(w), mod) = result[w]

\* a finished run of three clients in which a wire scaled by a negative constant has
\* a value that is not 0
C21_Witness ==
    /\ pc = "done"
    /\ client_count = 3
    /\ \E w \in WireIds(circuit) :
          /\ WireAt(circuit, w).kind = "ConstMultWire"
          /\ WireAt(circuit, w).c < 0
          /\ result[w] # 0
          /\ output[2][w] # 0

\* the clients' own slots of wire w, in client order
OwnSlotsOf(w) == [k \in 1..client_count |-> input_shares[k - 1][w][k]]

\* C22: once local_setup and interactive_setup have run on every client, and in
\* every later state of the run, for every Input wire w whose owner supplied the
\* value v, every client's own slot of w is the share the owner generated for it, and
\* the clients' own slots sum to v mod m.
C22_InputSharesResolved ==
    AfterSetup =>
        \A w \in InputIds(circuit) :
            LET owner == WireAt(circuit, w).owner_id
            IN  w \in DOMAIN inputs[owner] =>
                  /\ \A c \in ClientIds :
                        input_shares[c][w][c + 1] = input_shares[owner][w][c + 1]
                  /\ RecoverSecret(input_shares[owner][w], mod) = inputs[owner][w] % mod
                  /\ RecoverSecret(OwnSlotsOf(w), mod) = inputs[owner][w] % mod

\* a finished run in which the two shares of a private input that is not 0 differ and
\* the client that does not own it holds its share
C22_Witness ==
    /\ pc = "done"
    /\ \E w \in InputIds(circuit) :
          /\ WireAt(circuit, w).owner_id = 0
          /\ inputs[0][w] # 0
          /\ input_shares[0][w][1] # input_shares[0][w][2]
          /\ input_shares[1][w][2] = input_shares[0][w][2]
          /\ input_shares[1][w][2] # 0

\* C23: every share a client caches for a wire of any kind during run_circuit, and
\* every value of the result run_circuit returns, is an integer in 0..m-1.
C23_SharesInRange ==
    /\ \A c \in ClientIds :
          /\ \A w \in DOMAIN output[c] : output[c][w] \in 0..(mod - 1)
          /\ \A w \in DOMAIN input_shares[c] :
                \A k \in DOMAIN input_shares[c][w] :
                    input_shares[c][w][k] \in 0..(mod - 1)
    /\ \A w \in DOMAIN result : result[w] \in 0..(mod - 1)

\* a finished run in which a client's share of a Mult wire is m - 1 and its local
\* masked difference at that wire was negative
C23_Witness ==
    /\ pc = "done"
    /\ \E w \in MultIds(circuit) : \E c \in ClientIds :
          /\ output[c][w] = mod - 1
          /\ result[w] # 0
          /\ GetMaskedShares(circuit, input_shares[c], beaver_shares[c], c, w)[1] < 0

\* C24: on a well-formed circuit, every wire w a client caches in a call of
\* run_circuit_until_mult has its predecessors at lower indices, cached by then by
\* that client (the client's cached wires are 0..w, evaluated in ascending order),
\* so that no placeholder is read; for a Mult wire the client held its triple share
\* when the call began.
C24_PredecessorsCached ==
    [][pc = "run" =>
         LET c == Current
             new == DOMAIN output'[c] \ DOMAIN output[c]
         IN  \A w \in new :
                /\ \A p \in Predecessors(WireAt(circuit, w)) :
                      p < w /\ p \in DOMAIN output'[c]
                /\ \A p \in 0..w : p \in DOMAIN output'[c]
                /\ IsMult(circuit, w) => w \in DOMAIN beaver_shares[c]]_vars

\* client 0 has evaluated a circuit in which a wire reads a Mult wire, and client 1
\* has not begun
C24_Witness ==
    /\ pc = "run"
    /\ i = 1
    /\ DOMAIN output[0] = WireIds(circuit)
    /\ output[1] = EmptyDict
    /\ \E w \in WireIds(circuit) :
          Predecessors(WireAt(circuit, w)) \cap MultIds(circuit) # {}

\* C25: a call of get_beaver_triple for a gate that is cached changes nothing in the
\* authority's cache; a first call for gate g adds the entry of g and nothing else,
\* and leaves the entries of the other gates as they were; so the cache holds one
\* entry for each gate that has been asked for.
C25_CacheFrame ==
    [][\A g \in 0..MaxGate : \A p \in ClientIds :
          returned'[<<g, p>>].calls # returned[<<g, p>>].calls =>
             /\ IF g \in DOMAIN triples
                THEN triples' = triples
                ELSE /\ DOMAIN triples' = DOMAIN triples \cup {g}
                     /\ \A h \in DOMAIN triples : triples'[h] = triples[h]
             /\ DOMAIN triples' =
                   {h \in 0..MaxGate : \E q \in ClientIds : returned'[<<h, q>>].calls > 0}]_vars

\* two gates are cached with different triples, and a client has asked for gate 0
\* after gate 1 was cached
C25_Witness ==
    /\ DOMAIN triples = {0, 1}
    /\ triples[0] # triples[1]
    /\ \E p \in ClientIds :
          /\ returned[<<0, p>>].calls = MaxCalls
          /\ returned[<<1, p>>].calls > 0

\* after run_circuit the cache holds exactly one entry per Mult wire
CacheHoldsMultWires ==
    pc = "done" => DOMAIN triples = MultIds(circuit)

\* the step leaves the share vectors, the outputs and the triple shares of every
\* client but c as they were
OthersKept(c) ==
    \A other \in ClientIds \ {c} :
        /\ input_shares'[other] = input_shares[other]
        /\ output'[other] = output[other]
        /\ beaver_shares'[other] = beaver_shares[other]

\* C26: run_circuit_until_mult on a client changes only that client's cached shares:
\* the other clients' share vectors and outputs and the authority's cache stay as
\* they were; interactive_setup on a client, in run_circuit or on its own, changes no
\* other client's share vectors or outputs.
C26_PartyStateOwned ==
    [][/\ pc = "run" =>
            /\ OthersKept(Current)
            /\ triples' = triples
            /\ beaver_shares'[Current] = beaver_shares[Current]
       /\ pc \in {"interactive_setup", "refresh"} => OthersKept(Current)
       /\ (call.op = "none" /\ call'.op = "interactive_setup")
             => OthersKept(call'.client_id)]_vars

\* both clients have evaluated a circuit with a Mult wire, and their cached shares
\* of it differ
C26_Witness ==
    /\ pc = "refresh"
    /\ \E w \in MultIds(circuit) :
          /\ w \in DOMAIN output[0]
          /\ w \in DOMAIN output[1]
          /\ output[0][w] # output[1][w]

\* C27: a client's cursor only advances: run_circuit_until_mult(s) returns None or an
\* index >= s, so the client's next call starts behind every wire it has cached, and
\* a call caches wires from s on only: no client evaluates a wire twice.
C27_CursorAdvances ==
    [][pc = "run" =>
         LET c == Current
             s == progress[i + 1] + 1
             r == progress'[i + 1]
         IN  /\ r = None \/ r >= s
             /\ \A w \in DOMAIN output[c] : w < s
             /\ \A w \in DOMAIN output'[c] \ DOMAIN output[c] : w >= s]_vars

\* client 0 has made a second call, from the wire behind the Mult wire its first call
\* returned, and is done; client 1 is still at the Mult wire
C27_Witness ==
    /\ pc = "run"
    /\ i = 1
    /\ progress = <<None, 0>>
    /\ DOMAIN output[0] = WireIds(circuit)
    /\ DOMAIN output[1] = {0}

\* C28: in every state of run_circuit, for every Input wire w with owner k and every
\* other client c that has run local_setup, the entry of c's share vector of w at
\* index c is the placeholder 0 or the share k generated for c, and every other
\* entry is the placeholder 0: c stores no share that k generated for a third party.
C28_NoThirdPartyShares ==
    \A w \in InputIds(circuit) :
        LET k == WireAt(circuit, w).owner_id
        IN  \A c \in ClientIds \ {k} :
               HasLocalSetup(c) =>
                  /\ \A j \in ClientIds \ {c} : input_shares[c][w][j + 1] = 0
                  /\ \/ input_shares[c][w][c + 1] = 0
                     \/ /\ HasLocalSetup(k)
                        /\ input_shares[c][w][c + 1] = input_shares[k][w][c + 1]

\* a finished run of three clients in which the owner of an Input wire generated
\* three shares that are not 0, no two of them equal, and client 2 holds its own only
C28_Witness ==
    /\ pc = "done"
    /\ client_count = 3
    /\ \E w \in InputIds(circuit) :
          /\ WireAt(circuit, w).owner_id = 0
          /\ \A j \in 1..3 : input_shares[0][w][j] # 0
          /\ input_shares[0][w][1] # input_shares[0][w][3]
          /\ input_shares[0][w][2] # input_shares[0][w][3]
          /\ input_shares[2][w] = <<0, 0, input_shares[0][w][3]>>

====
